---------------------------- MODULE Spec2Model ----------------------------
(***************************************************************************)
(* The multicast test programs multicast.c (IPv4) and multicast6.c (IPv6): *)
(* main() builds one struct param from argv and starts recv_thread,        *)
(* send_thread or both with pthread_create; each thread creates one UDP    *)
(* socket, configures it and then loops for ever.                          *)
(*                                                                         *)
(* One state machine covers both programs: `family' selects the source     *)
(* file and `nossm' the -D NOSSM build.  Every system call may fail; the   *)
(* code answers each failure but that of recvfrom with exit(EXIT_FAILURE). *)
(* A payload is a sequence of byte values 0..255 (ASCII codes).            *)
(***************************************************************************)
EXTENDS Integers, Sequences, FiniteSets, TLC

(***************************************************************************)
(* Bounds of the model.                                                    *)
(***************************************************************************)
MaxLen == 2        \* longest datagram the receiver is handed
MaxRecvs == 2      \* recvfrom calls explored per run
MaxSends == 3      \* loop iterations of the sender explored per run

(***************************************************************************)
(* Program constants.                                                      *)
(***************************************************************************)
TTL == 64
HOP == 64
IFIDXDEFAULT == 0
IFNAMEDEFAULT == "default"
EXIT_FAILURE == 1
FIXLEN == 6                      \* sizeof(fixstr)-1 in both programs
INADDR_ANY == "0.0.0.0"
INADDR_NONE == "255.255.255.255" \* what inet_addr returns for malformed text
in6addr_any == "::"
NullName == "(null)"             \* a char pointer still zero from memset
NoFd == 0 - 1                    \* no descriptor yet
NoSeq == 0 - 1                   \* no datagram sent yet

(***************************************************************************)
(* The command lines explored.  argc counts argv[0]; an argv entry at or   *)
(* beyond argc does not exist and is written NoArg.                        *)
(***************************************************************************)
NoArg == "<none>"
BadText == "not-an-address"
Modes == {"recv", "send", "both", "bogus"}
GroupText(f) == IF f = 4 THEN "239.1.1.1" ELSE "ff15::1"
SourceText(f) == IF f = 4 THEN "172.16.1.1" ELSE "2001:db8::5"
IfText(f) == IF f = 4 THEN "172.16.2.2" ELSE "enp0s3"
PortText == "15000"

ArgSets(f) ==
    [mode : Modes, mip : {GroupText(f), BadText}, port : {PortText},
     sip : {NoArg, "-", SourceText(f), BadText},
     ifc : {NoArg, IfText(f), BadText}]

\* argc is the number of leading argv entries that exist (plus argv[0]).
ArgcOf(a) ==
    IF a.ifc # NoArg THEN 6 ELSE IF a.sip # NoArg THEN 5 ELSE 4

CommandLines(f) ==
    {a \in ArgSets(f) : a.ifc # NoArg => a.sip # NoArg}

\* The command line with too few arguments: ./multicast <mode> <mip>
ShortLine == [mode |-> "recv", mip |-> NoArg, port |-> NoArg,
              sip |-> NoArg, ifc |-> NoArg]

(***************************************************************************)
(* Library conversions.                                                    *)
(***************************************************************************)
\* Texts that inet_addr / inet_pton accept, by family.
ValidAddr(f, text) ==
    IF f = 4 THEN text \in {GroupText(4), SourceText(4), IfText(4)}
             ELSE text \in {GroupText(6), SourceText(6)}

\* inet_addr(text): the address, or INADDR_NONE for malformed text.
inet_addr(text) == IF ValidAddr(4, text) THEN text ELSE INADDR_NONE

\* inet_pton(AF_INET6, text, &dst): dst is written only on success.
inet_pton(text, dst) == IF ValidAddr(6, text) THEN text ELSE dst

\* if_nametoindex(name): 0 when no interface has that name.
if_nametoindex(name) == IF name = IfText(6) THEN 2 ELSE 0

\* atoi on the port text.
atoi(text) == IF text = PortText THEN 15000 ELSE 0

\* htons / ntohs on a little-endian host: swap the two bytes.
htons(x) == (x % 256) * 256 + (x \div 256)
ntohs(x) == (x % 256) * 256 + (x \div 256)

\* What the kernel accepts as a multicast group.
IsMulticast(addr) == addr \in {GroupText(4), GroupText(6)}

VARIABLES
    family,     \* 4: multicast.c, 6: multicast6.c
    nossm,      \* TRUE: built with -D NOSSM
    argc, argv, \* the command line
    p,          \* struct param p of main
    mpc,        \* where main is
    rpc,        \* where recv_thread is ("idle": not started)
    rsock,      \* recv_thread's sock
    rfd,        \* the descriptor of recv_thread's last recvfrom
    rops,       \* socket calls recv_thread made during setup, in order
    rlog,       \* join confirmations recv_thread printed
    nrecv,      \* recvfrom calls made
    nfail,      \* recvfrom calls that failed
    received,   \* the datagram of the last successful recvfrom, as it arrived
    obs,        \* the last "Recv fm" line printed
    nobs,       \* number of "Recv fm" lines printed
    spc,        \* where send_thread is ("idle": not started)
    ssock,      \* send_thread's sock
    sfd,        \* the descriptor of send_thread's last sendto
    sops,       \* socket calls send_thread made during setup, in order
    i,          \* send_thread's counter
    message,    \* the last payload rendered
    lastSeq,    \* the sequence number in the last datagram sent
    nsent,      \* datagrams sent
    iters,      \* loop iterations of the sender explored in this run
    net,        \* the datagrams other hosts send to the group and port
    joinline,   \* the line of stdout the join confirmation begins on
    fds,        \* descriptors open in the process
    exited,     \* the process has called exit
    status      \* its exit status

build == <<family, nossm>>
cmdline == <<argc, argv>>
mainv == <<p, mpc>>
recvv == <<rpc, rsock, rfd, rops, rlog, nrecv, nfail, received, obs, nobs>>
sendv == <<spc, ssock, sfd, sops, i, message, lastSeq, nsent, iters>>
procv == <<fds, exited, status>>
envv == <<net>>
outv == <<joinline>>
vars == <<build, cmdline, envv, outv, mainv, recvv, sendv, procv>>

\* The all-zero address of the family: the wildcard, and what memset leaves.
AnyAddr == IF family = 4 THEN INADDR_ANY ELSE in6addr_any

NoObs == [ip |-> "", port |-> 0, payload |-> <<>>, size |-> -1]

\* struct param after memset(&p, 0, sizeof(p)).
ZeroParam ==
    [mip |-> AnyAddr, port |-> 0, sip |-> AnyAddr, ifip |-> AnyAddr,
     ifidx |-> 0, ifname |-> NullName, ssm |-> 0, loop |-> 0, bidir |-> 0]

\* The datagrams of the other hosts in the runs of the whole program.
PeerData == {<<>>, <<104, 105>>, <<7, 200>>}

Fresh(f, n, c, a) ==
    /\ family = f /\ nossm = n /\ argc = c /\ argv = a
    /\ p = ZeroParam /\ mpc = "start"
    /\ rpc = "idle" /\ rsock = NoFd /\ rfd = NoFd /\ rops = <<>> /\ rlog = <<>>
    /\ nrecv = 0 /\ nfail = 0 /\ received = <<>> /\ obs = NoObs /\ nobs = 0
    /\ spc = "idle" /\ ssock = NoFd /\ sfd = NoFd /\ sops = <<>> /\ i = 0
    /\ message = <<>> /\ lastSeq = NoSeq /\ nsent = 0 /\ iters = 0
    /\ fds = {0, 1, 2} /\ exited = FALSE /\ status = 0
    /\ joinline = <<>>

Init ==
    /\ net = PeerData
    /\ \E f \in {4, 6}, n \in BOOLEAN :
        \/ \E a \in CommandLines(f) : Fresh(f, n, ArgcOf(a), a)
        \/ Fresh(f, n, 3, ShortLine)

(***************************************************************************)
(* exit(EXIT_FAILURE), from main or from a thread.                         *)
(***************************************************************************)
Exit == exited' = TRUE /\ status' = EXIT_FAILURE /\ UNCHANGED fds

(***************************************************************************)
(* main                                                                    *)
(***************************************************************************)
\* The source argument of the command line, when one was supplied.
SourceSupplied == argc >= 5 /\ argv.sip # "-"

\* #ifndef NOSSM  p.ssm = 1;  #endif
SsmFlag_Unconditional(old) == 1

SsmFlag(old) == IF nossm THEN old ELSE 1

\* p as main has filled it in when it reaches the mode dispatch.
ParsedParam ==
    LET p0 == IF family = 4
              THEN [ZeroParam EXCEPT !.sip = INADDR_ANY, !.ifip = INADDR_ANY]
              ELSE [ZeroParam EXCEPT !.sip = in6addr_any,
                                     !.ifname = IFNAMEDEFAULT,
                                     !.ifidx = IFIDXDEFAULT]
        p1 == [p0 EXCEPT !.mip = IF family = 4 THEN inet_addr(argv.mip)
                                 ELSE inet_pton(argv.mip, p0.mip),
                         !.port = htons(atoi(argv.port))]
        p2 == IF SourceSupplied
              THEN [p1 EXCEPT !.ssm = SsmFlag(p1.ssm),
                              !.sip = IF family = 4 THEN inet_addr(argv.sip)
                                      ELSE inet_pton(argv.sip, p1.sip)]
              ELSE p1
        p3 == IF argc >= 6
              THEN IF family = 4
                   THEN [p2 EXCEPT !.ifip = inet_addr(argv.ifc)]
                   ELSE [p2 EXCEPT !.ifname = argv.ifc,
                                   !.ifidx = if_nametoindex(argv.ifc)]
              ELSE p2
    IN  p3

\* if (argc < 4) errusage(argv[0]);
MainUsageArgc ==
    /\ ~exited /\ mpc = "start" /\ argc < 4
    /\ mpc' = "exit" /\ Exit
    /\ UNCHANGED <<build, cmdline, envv, outv, p, recvv, sendv>>

\* memset, the defaults and the argument parsing, up to the mode dispatch.
MainParse ==
    /\ ~exited /\ mpc = "start" /\ argc >= 4
    /\ p' = ParsedParam
    /\ mpc' = "dispatch"
    /\ UNCHANGED <<build, cmdline, envv, outv, recvv, sendv, procv>>

MainDispatchRecv ==
    /\ ~exited /\ mpc = "dispatch" /\ argv.mode = "recv"
    /\ mpc' = "create_rt"
    /\ UNCHANGED <<build, cmdline, envv, outv, p, recvv, sendv, procv>>

MainDispatchSend_NoLoop ==
    /\ ~exited /\ mpc = "dispatch" /\ argv.mode = "send"
    /\ mpc' = "create_st"
    /\ UNCHANGED <<build, cmdline, envv, outv, p, recvv, sendv, procv>>

MainDispatchSend ==
    /\ ~exited /\ mpc = "dispatch" /\ argv.mode = "send"
    /\ p' = [p EXCEPT !.loop = 1]
    /\ mpc' = "create_st"
    /\ UNCHANGED <<build, cmdline, envv, outv, recvv, sendv, procv>>

MainDispatchBoth ==
    /\ ~exited /\ mpc = "dispatch" /\ argv.mode = "both"
    /\ p' = [p EXCEPT !.bidir = 1]
    /\ mpc' = "create_rt"
    /\ UNCHANGED <<build, cmdline, envv, outv, recvv, sendv, procv>>

\* the final else: errusage(argv[0]);
MainUsageMode_ExitZero ==
    /\ ~exited /\ mpc = "dispatch" /\ argv.mode \notin {"recv", "send", "both"}
    /\ mpc' = "exit" /\ exited' = TRUE /\ status' = 0
    /\ UNCHANGED <<build, cmdline, envv, outv, p, recvv, sendv, fds>>

MainUsageMode ==
    /\ ~exited /\ mpc = "dispatch" /\ argv.mode \notin {"recv", "send", "both"}
    /\ mpc' = "exit" /\ Exit
    /\ UNCHANGED <<build, cmdline, envv, outv, p, recvv, sendv>>

MainCreateRecv_Fallthrough ==
    /\ ~exited /\ mpc = "create_rt"
    /\ rpc' = "socket"
    /\ mpc' = "create_st"
    /\ UNCHANGED <<build, cmdline, envv, outv, p, rsock, rfd, rops, rlog, nrecv, nfail,
                   received, obs, nobs, sendv, procv>>

\* pthread_create(&rt, NULL, recv_thread, &p); main does not look at the
\* result, and the thread is taken to start.
MainCreateRecv ==
    /\ ~exited /\ mpc = "create_rt"
    /\ rpc' = "socket"
    /\ mpc' = IF argv.mode = "both" THEN "create_st" ELSE "pause"
    /\ UNCHANGED <<build, cmdline, envv, outv, p, rsock, rfd, rops, rlog, nrecv, nfail,
                   received, obs, nobs, sendv, procv>>

MainCreateSend_LateLoop ==
    /\ ~exited /\ mpc = "create_st"
    /\ p' = [p EXCEPT !.loop = 1]
    /\ spc' = "socket"
    /\ mpc' = "pause"
    /\ UNCHANGED <<build, cmdline, envv, outv, recvv, ssock, sfd, sops, i, message,
                   lastSeq, nsent, iters, procv>>

\* pthread_create(&st, NULL, send_thread, &p);
MainCreateSend ==
    /\ ~exited /\ mpc = "create_st"
    /\ spc' = "socket"
    /\ mpc' = "pause"
    /\ UNCHANGED <<build, cmdline, envv, outv, p, recvv, ssock, sfd, sops, i, message,
                   lastSeq, nsent, iters, procv>>

(***************************************************************************)
(* Helpers shared by the two threads.                                      *)
(***************************************************************************)
\* socket() returns the lowest descriptor not in use.
NewFd == CHOOSE n \in 3..5 : n \notin fds /\ \A m \in 3..5 : m \notin fds => n <= m

\* The interface part of a membership request or of the interface option.
IfToken == IF family = 4 THEN p.ifip ELSE p.ifidx

\* Whether an interface was chosen (the test in front of *_MULTICAST_IF).
IfChosen == IF family = 4 THEN p.ifip # INADDR_ANY ELSE p.ifidx # IFIDXDEFAULT

(***************************************************************************)
(* recv_thread                                                             *)
(***************************************************************************)
\* Byte values at and around the limits of the printable range, and every
\* datagram of at most MaxLen of them.
Bytes == {0, 31, 32, 46, 126, 127, 200}
Payloads == UNION {[1..n -> Bytes] : n \in 0..MaxLen}
Dot == 46

\* isprint() in the "C" locale (the programs never call setlocale).  A byte
\* above 127 is non-printable whether char is signed or not.
isprint(c) == c >= 32 /\ c <= 126

\* for (i = 0; i < received_size; i++) if (!isprint(buffer[i])) buffer[i] = '.';
RECURSIVE SanitizeFrom(_, _, _)
SanitizeFrom(buffer, k, size) ==
    IF k < size
    THEN SanitizeFrom(IF ~isprint(buffer[k + 1])
                      THEN [buffer EXCEPT ![k + 1] = Dot]
                      ELSE buffer, k + 1, size)
    ELSE buffer

Sanitize_SkipLast(buffer) == SanitizeFrom(buffer, 0, Len(buffer) - 1)

Sanitize(buffer) == SanitizeFrom(buffer, 0, Len(buffer))

\* printf on stdout.  A call writes its text whole (stdio locks the stream
\* for the call), and calls of the two threads land in the order made.
\* joinline is the output line the join confirmation begins on: what was
\* written to it, by whom, up to its newline.
Frag(by, text, nl) == [by |-> by, text |-> text, nl |-> nl]
LineOpen == joinline # <<>> /\ ~joinline[Len(joinline)].nl
Printf(frag) == IF LineOpen THEN Append(joinline, frag) ELSE joinline

\* Which block follows the bind, and which follows the ASM block.
SsmBlock == ~nossm /\ p.ssm = 1
SsmEntry_NoDeviceBind == "join_ssm"

SsmEntry_SkipDefault ==
    IF family = 6 /\ p.ifidx # IFIDXDEFAULT THEN "bindtodevice" ELSE "join_ssm"

SsmEntry == IF family = 6 THEN "bindtodevice" ELSE "join_ssm"
AfterBind_AsmFirst == "join_asm"

AfterBind_SkipJoin == IF p.ssm = 0 THEN "recvfrom"
                      ELSE IF SsmBlock THEN SsmEntry ELSE "recvfrom"

AfterBind == IF p.ssm = 0 THEN "join_asm"
             ELSE IF SsmBlock THEN SsmEntry ELSE "recvfrom"
AfterAsm == IF SsmBlock THEN SsmEntry ELSE "recvfrom"

\* A setup call of recv_thread that failed: the call has returned -1 and
\* the thread goes on to perror and exit, which RExit takes.
RFail(call) ==
    /\ rops' = Append(rops, call)
    /\ rpc' = "failed"
    /\ UNCHANGED procv

\* perror(...); exit(EXIT_FAILURE); in recv_thread.  Until exit has ended
\* the process the other thread keeps running.
RExit ==
    /\ ~exited /\ rpc = "failed"
    /\ Exit
    /\ UNCHANGED <<build, cmdline, envv, outv, mainv, recvv, sendv>>

RSocket ==
    /\ ~exited /\ rpc = "socket"
    /\ \/ /\ rsock' = NewFd
          /\ fds' = fds \cup {NewFd}
          /\ rops' = Append(rops, [op |-> "socket", ok |-> TRUE, fd |-> NewFd])
          /\ rpc' = "reuseaddr"
          /\ UNCHANGED <<exited, status>>
       \/ /\ RFail([op |-> "socket", ok |-> FALSE, fd |-> NoFd])
          /\ UNCHANGED rsock
    /\ UNCHANGED <<build, cmdline, envv, outv, mainv, rfd, rlog, nrecv, nfail, received, obs,
                   nobs, sendv>>

RReuseAddr ==
    /\ ~exited /\ rpc = "reuseaddr"
    /\ \E ok \in BOOLEAN :
         LET call == [op |-> "SO_REUSEADDR", ok |-> ok, fd |-> rsock, val |-> 1]
         IN  IF ok THEN /\ rops' = Append(rops, call)
                        /\ rpc' = "bind"
                        /\ UNCHANGED procv
                   ELSE RFail(call)
    /\ UNCHANGED <<build, cmdline, envv, outv, mainv, rsock, rfd, rlog, nrecv, nfail, received,
                   obs, nobs, sendv>>

RBind ==
    /\ ~exited /\ rpc = "bind"
    /\ \E ok \in BOOLEAN :
         LET call == [op |-> "bind", ok |-> ok, fd |-> rsock,
                      addr |-> AnyAddr, port |-> p.port]
         IN  IF ok THEN /\ rops' = Append(rops, call)
                        /\ rpc' = AfterBind
                        /\ UNCHANGED procv
                   ELSE RFail(call)
    /\ UNCHANGED <<build, cmdline, envv, outv, mainv, rsock, rfd, rlog, nrecv, nfail, received,
                   obs, nobs, sendv>>

\* IP_ADD_MEMBERSHIP / IPV6_JOIN_GROUP; the kernel refuses a group that is
\* not a multicast address.
RJoinAsm ==
    /\ ~exited /\ rpc = "join_asm"
    /\ \E ok \in BOOLEAN :
         LET call == [op |-> "join_asm", ok |-> ok, fd |-> rsock,
                      group |-> p.mip, ifc |-> IfToken]
         IN  IF ok THEN /\ IsMulticast(p.mip)
                        /\ rops' = Append(rops, call)
                        /\ rlog' = Append(rlog,
                               [kind |-> "ASM", group |-> p.mip,
                                port |-> ntohs(p.port), ifc |-> IfToken])
                        /\ joinline' = <<Frag("recv", "Joined ASM", family = 6)>>
                        /\ rpc' = IF family = 4 THEN "print_via" ELSE AfterAsm
                        /\ UNCHANGED procv
                   ELSE RFail(call) /\ UNCHANGED <<rlog, joinline>>
    /\ UNCHANGED <<build, cmdline, envv, mainv, rsock, rfd, nrecv, nfail, received, obs,
                   nobs, sendv>>

\* multicast6.c only: setsockopt(SO_BINDTODEVICE, pp->ifname).
RBindToDevice ==
    /\ ~exited /\ rpc = "bindtodevice"
    /\ \E ok \in BOOLEAN :
         LET call == [op |-> "SO_BINDTODEVICE", ok |-> ok, fd |-> rsock,
                      ifname |-> p.ifname]
         IN  IF ok THEN /\ rops' = Append(rops, call)
                        /\ rpc' = "join_ssm"
                        /\ UNCHANGED procv
                   ELSE RFail(call)
    /\ UNCHANGED <<build, cmdline, envv, outv, mainv, rsock, rfd, rlog, nrecv, nfail, received,
                   obs, nobs, sendv>>

\* IP_ADD_SOURCE_MEMBERSHIP / MCAST_JOIN_SOURCE_GROUP.
RJoinSsm ==
    /\ ~exited /\ rpc = "join_ssm"
    /\ \E ok \in BOOLEAN :
         LET call == [op |-> "join_ssm", ok |-> ok, fd |-> rsock,
                      group |-> p.mip, source |-> p.sip, ifc |-> IfToken]
         IN  IF ok THEN /\ IsMulticast(p.mip)
                        /\ rops' = Append(rops, call)
                        /\ rlog' = Append(rlog,
                               [kind |-> "SSM", group |-> p.mip,
                                port |-> ntohs(p.port), source |-> p.sip,
                                ifc |-> IfToken])
                        /\ joinline' = <<Frag("recv", "Joined SSM", FALSE)>>
                        /\ rpc' = IF family = 4 THEN "print_from" ELSE "print_via"
                        /\ UNCHANGED procv
                   ELSE RFail(call) /\ UNCHANGED <<rlog, joinline>>
    /\ UNCHANGED <<build, cmdline, envv, mainv, rsock, rfd, nrecv, nfail, received, obs,
                   nobs, sendv>>

\* multicast.c: printf("from %s ", ...), the second of the three fragments
\* of the SSM confirmation.
RPrintFrom ==
    /\ ~exited /\ rpc = "print_from"
    /\ joinline' = Printf(Frag("recv", "from", FALSE))
    /\ rpc' = "print_via"
    /\ UNCHANGED <<build, cmdline, envv, mainv, rsock, rfd, rops, rlog, nrecv,
                   nfail, received, obs, nobs, sendv, procv>>

\* The last fragment of the confirmation, which ends the line:
\* printf("via interface %s\n", ...) in multicast.c,
\* printf("from %s via interface %d (%s)\n", ...) in multicast6.c.
RPrintVia ==
    /\ ~exited /\ rpc = "print_via"
    /\ joinline' = Printf(Frag("recv", "via interface", TRUE))
    /\ rpc' = IF p.ssm = 0 THEN AfterAsm ELSE "recvfrom"
    /\ UNCHANGED <<build, cmdline, envv, mainv, rsock, rfd, rops, rlog, nrecv,
                   nfail, received, obs, nobs, sendv, procv>>

\* One pass of the while (1) loop in which recvfrom returned a datagram:
\* the sender's address is formatted, the buffer sanitized, the line printed.
RRecvOk ==
    /\ ~exited /\ rpc = "recvfrom" /\ nrecv < MaxRecvs
    /\ \E data \in net :
         /\ received' = data
         /\ obs' = [ip |-> SourceText(family), port |-> ntohs(htons(15000)),
                    payload |-> Sanitize(data), size |-> Len(data)]
    /\ nrecv' = nrecv + 1
    /\ rfd' = rsock
    /\ nobs' = nobs + 1
    /\ UNCHANGED <<build, cmdline, envv, outv, mainv, rpc, rsock, rops, rlog, nfail,
                   sendv, procv>>

RRecvFail_Fatal ==
    /\ ~exited /\ rpc = "recvfrom" /\ nrecv < MaxRecvs
    /\ nrecv' = nrecv + 1
    /\ rfd' = rsock
    /\ nfail' = nfail + 1
    /\ rpc' = "failed"
    /\ Exit
    /\ UNCHANGED <<build, cmdline, envv, outv, mainv, rsock, rops, rlog, received,
                   obs, nobs, sendv>>

\* recvfrom returned -1: perror("recvfrom failed"); continue;
RRecvFail ==
    /\ ~exited /\ rpc = "recvfrom" /\ nrecv < MaxRecvs
    /\ nrecv' = nrecv + 1
    /\ rfd' = rsock
    /\ nfail' = nfail + 1
    /\ UNCHANGED <<build, cmdline, envv, outv, mainv, rpc, rsock, rops, rlog, received,
                   obs, nobs, sendv, procv>>

(***************************************************************************)
(* send_thread                                                             *)
(***************************************************************************)
\* Seconds of the day at which time(NULL) is read.
Times == {0, 86399}

RECURSIVE DigitsOf(_)
DigitsOf(n) == IF n < 10 THEN <<48 + n>>
               ELSE DigitsOf(n \div 10) \o <<48 + (n % 10)>>

RECURSIVE ZeroPad(_, _)
ZeroPad(s, width) == IF Len(s) >= width THEN s ELSE ZeroPad(<<48>> \o s, width)

Fmt06d_Width5(n) == IF n >= 0 THEN ZeroPad(DigitsOf(n), 5)
                    ELSE <<45>> \o ZeroPad(DigitsOf(0 - n), 4)

\* printf's %06d: at least six characters, zero padded, sign first.
Fmt06d(n) == IF n >= 0 THEN ZeroPad(DigitsOf(n), 6)
             ELSE <<45>> \o ZeroPad(DigitsOf(0 - n), 5)

\* strftime(timestr, 7, "%H%M%S", localtime(&now))
TimeStr(t) == ZeroPad(DigitsOf(t \div 3600), 2)
              \o ZeroPad(DigitsOf((t \div 60) % 60), 2)
              \o ZeroPad(DigitsOf(t % 60), 2)

\* char fixstr[]: ".....*" in multicast.c; "0....." in multicast6.c, whose
\* first character is rewritten to '0' + (i / 6) % 10 before each use.
FixStr(k) == IF family = 4 THEN <<46, 46, 46, 46, 46, 42>>
             ELSE <<48 + ((k \div FIXLEN) % 10), 46, 46, 46, 46, 46>>

Marker_TailOnly(k) == SubSeq(FixStr(k), (k % FIXLEN) + 1, FIXLEN)

\* "%s%.*s" on fixstr: the tail of fixstr from an offset, then a prefix.
Marker(k) ==
    IF family = 4
    THEN SubSeq(FixStr(k), (k % FIXLEN) + 1, FIXLEN)
         \o SubSeq(FixStr(k), 1, k % FIXLEN)
    ELSE SubSeq(FixStr(k), FIXLEN - (k % FIXLEN) + 1, FIXLEN)
         \o SubSeq(FixStr(k), 1, FIXLEN - (k % FIXLEN))

SeqOf_ZeroBased(k) == k

\* The number the last argument of snprintf passes for %06d.
SeqOf(k) == IF family = 4 THEN k ELSE k + 1

\* snprintf(message, sizeof(message), "%s%.*s/%s/%06d", ...)
Render(k, t) == Marker(k) \o <<47>> \o TimeStr(t) \o <<47>> \o Fmt06d(SeqOf(k))

SFail_Continue(call) ==
    /\ sops' = Append(sops, call)
    /\ spc' = spc
    /\ UNCHANGED procv

\* A call of send_thread that failed: the call has returned -1 and the
\* thread goes on to perror and exit, which SExit takes.
SFail(call) ==
    /\ sops' = Append(sops, call)
    /\ spc' = "failed"
    /\ UNCHANGED procv

SExit_ThreadOnly ==
    /\ ~exited /\ spc = "failed"
    /\ spc' = "gone"
    /\ UNCHANGED <<build, cmdline, envv, outv, mainv, recvv, ssock, sfd, sops, i,
                   message, lastSeq, nsent, iters, procv>>

\* perror(...); exit(EXIT_FAILURE); in send_thread.
SExit ==
    /\ ~exited /\ spc = "failed"
    /\ Exit
    /\ UNCHANGED <<build, cmdline, envv, outv, mainv, recvv, sendv>>

SSocket_SharedSock ==
    /\ ~exited /\ spc = "socket"
    /\ LET fd == IF rsock # NoFd THEN rsock ELSE NewFd IN
         /\ ssock' = fd
         /\ fds' = fds \cup {fd}
         /\ sops' = Append(sops, [op |-> "socket", ok |-> TRUE, fd |-> fd])
    /\ spc' = IF p.bidir = 1 THEN "reuseaddr" ELSE "bind"
    /\ UNCHANGED <<build, cmdline, envv, outv, mainv, recvv, sfd, i, message, lastSeq,
                   nsent, iters, exited, status>>

SSocket_AfterReceiver ==
    /\ ~exited /\ spc = "socket" /\ rpc = "recvfrom"
    /\ ssock' = NewFd
    /\ fds' = fds \cup {NewFd}
    /\ sops' = Append(sops, [op |-> "socket", ok |-> TRUE, fd |-> NewFd])
    /\ spc' = IF p.bidir = 1 THEN "reuseaddr" ELSE "bind"
    /\ UNCHANGED <<build, cmdline, envv, outv, mainv, recvv, sfd, i, message, lastSeq,
                   nsent, iters, exited, status>>

SSocket ==
    /\ ~exited /\ spc = "socket"
    /\ \/ /\ ssock' = NewFd
          /\ fds' = fds \cup {NewFd}
          /\ sops' = Append(sops, [op |-> "socket", ok |-> TRUE, fd |-> NewFd])
          /\ spc' = IF p.bidir = 1 THEN "reuseaddr" ELSE "bind"
          /\ UNCHANGED <<exited, status>>
       \/ /\ SFail([op |-> "socket", ok |-> FALSE, fd |-> NoFd])
          /\ UNCHANGED ssock
    /\ UNCHANGED <<build, cmdline, envv, outv, mainv, recvv, sfd, i, message, lastSeq, nsent,
                   iters>>

\* if (pp->bidir == 1) setsockopt(SO_REUSEADDR)
SReuseAddr ==
    /\ ~exited /\ spc = "reuseaddr"
    /\ \E ok \in BOOLEAN :
         LET call == [op |-> "SO_REUSEADDR", ok |-> ok, fd |-> ssock, val |-> 1]
         IN  IF ok THEN /\ sops' = Append(sops, call)
                        /\ spc' = "bind"
                        /\ UNCHANGED procv
                   ELSE SFail(call)
    /\ UNCHANGED <<build, cmdline, envv, outv, mainv, recvv, ssock, sfd, i, message, lastSeq,
                   nsent, iters>>

\* local_bind: the address is pp->ifip (multicast.c) or pp->sip
\* (multicast6.c); the port is pp->port in bidir mode and 0 otherwise.
SBindAddr_Wildcard == AnyAddr

SBindAddr == IF family = 4 THEN p.ifip ELSE p.sip

SBindPort_Always == p.port

SBindPort == IF p.bidir = 1 THEN p.port ELSE 0

SBind ==
    /\ ~exited /\ spc = "bind"
    /\ \E ok \in BOOLEAN :
         LET call == [op |-> "bind", ok |-> ok, fd |-> ssock,
                      addr |-> SBindAddr, port |-> SBindPort]
         IN  IF ok THEN /\ sops' = Append(sops, call)
                        /\ spc' = IF IfChosen THEN "multicast_if" ELSE "print_via"
                        /\ UNCHANGED procv
                   ELSE SFail(call)
    /\ UNCHANGED <<build, cmdline, envv, outv, mainv, recvv, ssock, sfd, i, message, lastSeq,
                   nsent, iters>>

\* IP_MULTICAST_IF / IPV6_MULTICAST_IF
SMulticastIf ==
    /\ ~exited /\ spc = "multicast_if"
    /\ \E ok \in BOOLEAN :
         LET call == [op |-> "MULTICAST_IF", ok |-> ok, fd |-> ssock,
                      ifc |-> IfToken]
         IN  IF ok THEN /\ sops' = Append(sops, call)
                        /\ spc' = "print_via"
                        /\ UNCHANGED procv
                   ELSE SFail(call)
    /\ UNCHANGED <<build, cmdline, envv, outv, mainv, recvv, ssock, sfd, i, message, lastSeq,
                   nsent, iters>>

SPrintVia_SkipTtl ==
    /\ ~exited /\ spc = "print_via"
    /\ spc' = "loop"
    /\ UNCHANGED <<build, cmdline, envv, outv, mainv, recvv, ssock, sfd, sops, i, message,
                   lastSeq, nsent, iters, procv>>

\* printf("Sending via interface ...")
SPrintVia ==
    /\ ~exited /\ spc = "print_via"
    /\ joinline' = Printf(Frag("send", "Sending via interface", TRUE))
    /\ spc' = "ttl"
    /\ UNCHANGED <<build, cmdline, envv, mainv, recvv, ssock, sfd, sops, i, message,
                   lastSeq, nsent, iters, procv>>

\* IP_MULTICAST_TTL / IPV6_MULTICAST_HOPS
STtl ==
    /\ ~exited /\ spc = "ttl"
    /\ \E ok \in BOOLEAN :
         LET call == [op |-> "MULTICAST_TTL", ok |-> ok, fd |-> ssock,
                      val |-> IF family = 4 THEN TTL ELSE HOP]
         IN  IF ok THEN /\ sops' = Append(sops, call)
                        /\ spc' = "loop"
                        /\ UNCHANGED procv
                   ELSE SFail(call)
    /\ UNCHANGED <<build, cmdline, envv, outv, mainv, recvv, ssock, sfd, i, message, lastSeq,
                   nsent, iters>>

\* IP_MULTICAST_LOOP / IPV6_MULTICAST_LOOP with &pp->loop
SLoop ==
    /\ ~exited /\ spc = "loop"
    /\ \E ok \in BOOLEAN :
         LET call == [op |-> "MULTICAST_LOOP", ok |-> ok, fd |-> ssock,
                      val |-> p.loop]
         IN  IF ok THEN /\ sops' = Append(sops, call)
                        /\ spc' = "sendto"
                        /\ UNCHANGED procv
                   ELSE SFail(call)
    /\ UNCHANGED <<build, cmdline, envv, outv, mainv, recvv, ssock, sfd, i, message, lastSeq,
                   nsent, iters>>

\* time, strftime, snprintf, and a sendto that succeeds; the "Sent to" line.
SSendOk ==
    /\ ~exited /\ spc = "sendto" /\ iters < MaxSends
    /\ \E t \in Times : message' = Render(i, t)
    /\ sfd' = ssock
    /\ lastSeq' = SeqOf(i)
    /\ nsent' = nsent + 1
    /\ joinline' = Printf(Frag("send", "Sent to", TRUE))
    /\ spc' = "sleep"
    /\ UNCHANGED <<build, cmdline, envv, mainv, recvv, ssock, sops, i, iters, procv>>

\* a sendto that fails: perror("Send failed"); exit(EXIT_FAILURE);
SSendFail ==
    /\ ~exited /\ spc = "sendto" /\ iters < MaxSends
    /\ \E t \in Times : message' = Render(i, t)
    /\ sfd' = ssock
    /\ SFail([op |-> "sendto", ok |-> FALSE, fd |-> ssock])
    /\ UNCHANGED <<build, cmdline, envv, outv, mainv, recvv, ssock, i, lastSeq, nsent,
                   iters>>

\* sleep(1); i++;
SSleep ==
    /\ ~exited /\ spc = "sleep"
    /\ i' = i + 1
    /\ iters' = iters + 1
    /\ spc' = "sendto"
    /\ UNCHANGED <<build, cmdline, envv, outv, mainv, recvv, ssock, sfd, sops, message,
                   lastSeq, nsent, procv>>

(***************************************************************************)
(* The programs.                                                           *)
(***************************************************************************)
main ==
    \/ MainUsageArgc \/ MainParse
    \/ MainDispatchRecv \/ MainDispatchSend \/ MainDispatchBoth
    \/ MainUsageMode \/ MainCreateRecv \/ MainCreateSend

recv_thread ==
    \/ RSocket \/ RReuseAddr \/ RBind \/ RJoinAsm \/ RBindToDevice
    \/ RJoinSsm \/ RPrintFrom \/ RPrintVia \/ RRecvOk \/ RRecvFail \/ RExit

send_thread ==
    \/ SSocket \/ SReuseAddr \/ SBind \/ SMulticastIf \/ SPrintVia \/ STtl
    \/ SLoop \/ SSendOk \/ SSendFail \/ SSleep \/ SExit

Next == main \/ recv_thread \/ send_thread

Spec == Init /\ [][Next]_vars

(***************************************************************************)
(* The receiver alone: ./multicast recv <mip> <port> [sip], with every     *)
(* datagram of at most MaxLen bytes of Bytes arriving.                      *)
(***************************************************************************)
RecvLines(f) ==
    {a \in CommandLines(f) :
        /\ a.mode = "recv" /\ a.mip = GroupText(f) /\ a.ifc = NoArg
        /\ a.sip \in {NoArg, SourceText(f)}}

InitSan ==
    /\ net = Payloads
    /\ \E f \in {4, 6} : \E a \in RecvLines(f) : Fresh(f, FALSE, ArgcOf(a), a)

NextSan == MainParse \/ MainDispatchRecv \/ MainCreateRecv \/ recv_thread

SpecSan == InitSan /\ [][NextSan]_vars

(***************************************************************************)
(* Bidirectional mode with no source address:                              *)
(* ./multicast both <mip> <port> [- [ifip]], with the threads scheduled    *)
(* fairly: a thread that can take a step is not held back for ever.        *)
(***************************************************************************)
BidirLines(f) ==
    {a \in CommandLines(f) :
        a.mode = "both" /\ a.mip = GroupText(f) /\ a.sip \in {NoArg, "-"}}

InitBidir ==
    /\ net = PeerData
    /\ \E f \in {4, 6}, n \in BOOLEAN :
          \E a \in BidirLines(f) : Fresh(f, n, ArgcOf(a), a)

NextBidir ==
    \/ MainParse \/ MainDispatchBoth \/ MainCreateRecv \/ MainCreateSend
    \/ RSocket \/ RReuseAddr \/ RBind \/ RJoinAsm \/ RRecvOk \/ RRecvFail
    \/ RPrintVia \/ RExit \/ SExit
    \/ SSocket \/ SReuseAddr \/ SBind \/ SMulticastIf \/ SPrintVia \/ STtl
    \/ SLoop \/ SSendOk \/ SSendFail \/ SSleep

SpecBidir ==
    /\ InitBidir /\ [][NextBidir]_vars
    /\ WF_vars(main) /\ WF_vars(recv_thread) /\ WF_vars(send_thread)

(***************************************************************************)
(* The sender's loop alone: ./multicast send <mip> <port> after k passes   *)
(* of the loop, for the values of k in SeqStarts.  Each such state is the  *)
(* one the program is in when k sends have succeeded.                      *)
(***************************************************************************)
SeqStarts == {0, 9, 59, 999998}

SendLine(f) == [mode |-> "send", mip |-> GroupText(f), port |-> PortText,
                sip |-> NoArg, ifc |-> NoArg]

\* The socket calls of send_thread's setup in send mode with no interface.
SendSetup(f) ==
    << [op |-> "socket", ok |-> TRUE, fd |-> 3],
       [op |-> "bind", ok |-> TRUE, fd |-> 3,
        addr |-> IF f = 4 THEN INADDR_ANY ELSE in6addr_any, port |-> 0],
       [op |-> "MULTICAST_TTL", ok |-> TRUE, fd |-> 3,
        val |-> IF f = 4 THEN TTL ELSE HOP],
       [op |-> "MULTICAST_LOOP", ok |-> TRUE, fd |-> 3, val |-> 1] >>

InitSeq ==
    /\ net = PeerData
    /\ \E f \in {4, 6}, k \in SeqStarts :
        /\ family = f /\ nossm = FALSE /\ argc = 4 /\ argv = SendLine(f)
        /\ p = [ParsedParam EXCEPT !.loop = 1] /\ mpc = "pause"
        /\ rpc = "idle" /\ rsock = NoFd /\ rfd = NoFd /\ rops = <<>>
        /\ rlog = <<>>
        /\ nrecv = 0 /\ nfail = 0 /\ received = <<>> /\ obs = NoObs
        /\ nobs = 0
        /\ spc = "sendto" /\ ssock = 3 /\ sops = SendSetup(f)
        /\ sfd = IF k = 0 THEN NoFd ELSE 3
        /\ i = k /\ nsent = k /\ iters = 0
        /\ lastSeq = IF k = 0 THEN NoSeq ELSE SeqOf(k - 1)
        /\ IF k = 0 THEN message = <<>>
                    ELSE \E t \in Times : message = Render(k - 1, t)
        /\ fds = {0, 1, 2, 3} /\ exited = FALSE /\ status = 0
        /\ joinline = <<>>

NextSeq == SSendOk \/ SSendFail \/ SSleep \/ SExit

SpecSeq == InitSeq /\ [][NextSeq]_vars

(***************************************************************************)
(* Vocabulary of the properties.                                           *)
(***************************************************************************)
RecvLaunched == rpc # "idle"
SendLaunched == spc # "idle"
UsageError == argc < 4 \/ argv.mode \notin {"recv", "send", "both"}

\* Positions in a thread's log of the calls named in `names'.
CallsIn(log, names) == {k \in 1..Len(log) : log[k].op \in names}
FailedIn(log) == {k \in 1..Len(log) : ~log[k].ok}

(***************************************************************************)
(* C1.  Dispatch of main: mode recv launches recv_thread only, mode send   *)
(* launches send_thread only, mode both launches both; with any other      *)
(* mode, or with fewer than three arguments after the program name, no     *)
(* thread is ever launched and main's only way on is errusage, which exits *)
(* with EXIT_FAILURE.                                                      *)
(***************************************************************************)
C1_Dispatch ==
    /\ argv.mode = "recv" /\ argc >= 4 =>
          /\ ~SendLaunched
          /\ mpc = "pause" => RecvLaunched
    /\ argv.mode = "send" /\ argc >= 4 =>
          /\ ~RecvLaunched
          /\ mpc = "pause" => SendLaunched
    /\ argv.mode = "both" /\ argc >= 4 =>
          /\ mpc = "pause" => RecvLaunched /\ SendLaunched
    /\ UsageError =>
          /\ ~RecvLaunched /\ ~SendLaunched
          /\ mpc \in {"start", "dispatch", "exit"}
          /\ mpc = "dispatch" => ENABLED MainUsageMode
          /\ mpc = "start" /\ argc < 4 => ENABLED MainUsageArgc
    /\ mpc = "exit" => UsageError /\ exited /\ status = EXIT_FAILURE /\ status # 0

C1_Witness ==
    /\ argv.mode = "both" /\ mpc = "pause"
    /\ RecvLaunched /\ SendLaunched /\ ~exited

(***************************************************************************)
(* C2.  The struct param is never written once a thread has been launched: *)
(* every step taken while recv_thread or send_thread exists leaves p as it *)
(* is, whichever of main and the two threads takes it.                     *)
(***************************************************************************)
C2_ConfigFrozen == [][(RecvLaunched \/ SendLaunched) => p' = p]_vars

C2_Witness ==
    /\ argv.mode = "both" /\ p.bidir = 1
    /\ rpc = "recvfrom" /\ nrecv > 0 /\ spc = "sleep" /\ nsent > 1

(***************************************************************************)
(* C3.  As claimed: whenever send_thread sets the multicast loop option,   *)
(* the value is 1, in mode send and in mode both.                          *)
(***************************************************************************)
C3_LoopAlwaysOn ==
    \A k \in CallsIn(sops, {"MULTICAST_LOOP"}) : sops[k].val = 1

(***************************************************************************)
(* C3, amended.  Whenever send_thread sets the multicast loop option, the  *)
(* value is 1 in mode send and 0 in mode both (main sets p.loop only in    *)
(* the send branch).                                                       *)
(***************************************************************************)
C3_LoopByMode ==
    \A k \in CallsIn(sops, {"MULTICAST_LOOP"}) :
        sops[k].val = IF argv.mode = "send" THEN 1 ELSE 0

C3_Witness ==
    /\ argv.mode = "send" /\ spc = "sendto" /\ ~exited
    /\ \E k \in CallsIn(sops, {"MULTICAST_LOOP"}) : sops[k].ok

(***************************************************************************)
(* C4.  As claimed: in every struct param main has built, ssm is 1 if and  *)
(* only if a source argument other than "-" was given, in every build.     *)
(***************************************************************************)
C4_SsmIffSource == mpc # "start" => (p.ssm = 1 <=> SourceSupplied)

(***************************************************************************)
(* C4, amended.  In every struct param main has built, ssm is 1 if and     *)
(* only if a source argument other than "-" was given and the program was  *)
(* built without -D NOSSM; in a NOSSM build ssm is always 0.               *)
(***************************************************************************)
C4_SsmIffSourceAndBuild ==
    /\ p.ssm \in {0, 1}
    /\ mpc # "start" => (p.ssm = 1 <=> (SourceSupplied /\ ~nossm))

C4_Witness ==
    /\ mpc = "pause" /\ ~nossm /\ argv.sip = SourceText(family)
    /\ p.ssm = 1 /\ p.sip = SourceText(family)

(***************************************************************************)
(* C5.  As claimed: in every run of recv_thread whose command line gave a  *)
(* source address, no ASM join is issued and the join issued before the    *)
(* loop is the SSM join with that source; no run issues both kinds.        *)
(***************************************************************************)
AsmJoins == CallsIn(rops, {"join_asm"})
SsmJoins == CallsIn(rops, {"join_ssm"})

JoinKindsExclusive ==
    /\ AsmJoins = {} \/ SsmJoins = {}
    /\ Cardinality(AsmJoins) + Cardinality(SsmJoins) <= 1

SsmJoinOnly ==
    /\ AsmJoins = {}
    /\ \A k \in SsmJoins :
          /\ rops[k].source = p.sip
          /\ ValidAddr(family, argv.sip) => rops[k].source = argv.sip
    /\ rpc = "recvfrom" => \E k \in SsmJoins : rops[k].ok

C5_SourceMeansSsm ==
    /\ SourceSupplied => SsmJoinOnly
    /\ JoinKindsExclusive

(***************************************************************************)
(* C5, amended.  In every run of recv_thread whose struct param has ssm    *)
(* set (a source address was given and the build is not a NOSSM build), no *)
(* ASM join is issued and the join issued before the loop is the SSM join  *)
(* with that source; in a NOSSM build with a source address given the ASM  *)
(* join is issued and no SSM join is; no run issues both kinds.            *)
(***************************************************************************)
C5_SsmFlagMeansSsm ==
    /\ p.ssm = 1 => SsmJoinOnly
    /\ SourceSupplied /\ nossm =>
          /\ SsmJoins = {}
          /\ rpc = "recvfrom" => \E k \in AsmJoins : rops[k].ok
    /\ JoinKindsExclusive

C5_Witness ==
    /\ p.ssm = 1 /\ rpc = "recvfrom" /\ nobs > 0
    /\ \E k \in SsmJoins : rops[k].ok /\ rops[k].source = SourceText(family)

(***************************************************************************)
(* C6.  recv_thread goes through Created, SocketBound, MembershipJoined    *)
(* and Listening in that order: no join is issued before the bind has      *)
(* succeeded, no read is attempted before a join has succeeded, the        *)
(* thread never steps back, and once it is in its read loop it stays       *)
(* there (the process may end, the thread does not leave the loop).        *)
(***************************************************************************)
RStage ==
    CASE rpc = "idle" -> 0
      [] rpc \in {"socket", "reuseaddr", "bind"} -> 1          \* Created
      [] rpc \in {"join_asm", "bindtodevice", "join_ssm"} -> 2 \* SocketBound
      [] rpc \in {"print_from", "print_via", "recvfrom"} -> 3
                                        \* MembershipJoined, then Listening
      [] OTHER -> 4                                            \* exit called

BoundBeforeJoin ==
    \A k \in CallsIn(rops, {"join_asm", "join_ssm", "SO_BINDTODEVICE"}) :
        \E j \in 1..(k - 1) : rops[j].op = "bind" /\ rops[j].ok

JoinedBeforeRead ==
    (rpc = "recvfrom" \/ nrecv > 0) =>
        /\ \E k \in CallsIn(rops, {"join_asm", "join_ssm"}) : rops[k].ok
        /\ Len(rlog) = 1

C6_ReceiveOrder ==
    /\ [](BoundBeforeJoin /\ JoinedBeforeRead)
    /\ [][RStage' >= RStage]_vars
    /\ [][rpc = "recvfrom" => rpc' = "recvfrom"]_vars
    /\ [][nrecv' # nrecv => rpc = "recvfrom"]_vars

C6_Witness ==
    /\ rpc = "recvfrom" /\ nrecv = MaxRecvs /\ nobs > 0 /\ ~exited
    /\ Len(rops) >= 4

(***************************************************************************)
(* C7.  A recvfrom that fails is not fatal: the step in which a read fails *)
(* leaves the process running and recv_thread in its read loop, and prints *)
(* no "Recv fm" line; after any number of failures the thread can read     *)
(* again.                                                                  *)
(***************************************************************************)
C7_ReadFailureAbsorbed ==
    /\ [][nfail' > nfail =>
            /\ ~exited' /\ status' = status
            /\ rpc' = "recvfrom"
            /\ nobs' = nobs /\ obs' = obs /\ rops' = rops]_vars
    /\ [](nfail > 0 /\ ~exited /\ nrecv < MaxRecvs => ENABLED RRecvOk)

C7_Witness ==
    /\ nfail >= 2 /\ nobs = 0 /\ rpc = "recvfrom" /\ ~exited

(***************************************************************************)
(* C8.  Every failed call but recvfrom ends the process with EXIT_FAILURE  *)
(* as the very next thing its thread does: a failed call is the last call  *)
(* its thread makes (so it is not retried, and a failed SSM join is not    *)
(* followed by an ASM join), the thread's one remaining step is the exit,  *)
(* which it can always take, and the exit status is never 0.               *)
(***************************************************************************)
FatalLast(log, pc) ==
    \A k \in FailedIn(log) :
        /\ k = Len(log)
        /\ pc = "failed"
        /\ exited => status = EXIT_FAILURE

C8_FailuresFatal ==
    /\ [](FatalLast(rops, rpc) /\ FatalLast(sops, spc))
    /\ [](exited => status = EXIT_FAILURE)
    /\ [][rpc = "failed" => UNCHANGED recvv]_vars
    /\ [][spc = "failed" => UNCHANGED sendv]_vars
    /\ [][Len(rops') > Len(rops) /\ ~rops'[Len(rops')].ok => rpc' = "failed"]_vars
    /\ [][Len(sops') > Len(sops) /\ ~sops'[Len(sops')].ok => spc' = "failed"]_vars
    /\ []((rpc = "failed" /\ ~exited) => ENABLED RExit)
    /\ []((spc = "failed" /\ ~exited) => ENABLED SExit)
    /\ [][(rpc = "failed" /\ ~exited /\ ~UNCHANGED <<rpc, fds, exited, status>>
            /\ UNCHANGED sendv) => exited' /\ status' = EXIT_FAILURE]_vars

C8_Witness ==
    /\ exited /\ status = EXIT_FAILURE /\ spc = "failed" /\ nsent > 0
    /\ sops[Len(sops)].op = "sendto" /\ ~sops[Len(sops)].ok

(***************************************************************************)
(* C9.  Sanitization in recv_thread: the payload printed for a datagram    *)
(* has the length of the datagram, each of its bytes is the byte received  *)
(* or '.', and a byte is replaced by '.' exactly when it is outside the    *)
(* printable range 0x20..0x7e.                                             *)
(***************************************************************************)
PrintableAscii(b) == b \in 32..126

C9_Sanitized ==
    nobs > 0 =>
        /\ Len(obs.payload) = Len(received)
        /\ obs.size = Len(received)
        /\ \A k \in 1..Len(received) :
              /\ obs.payload[k] \in {received[k], 46}
              /\ obs.payload[k] # received[k] <=> ~PrintableAscii(received[k])
              /\ ~PrintableAscii(received[k]) => obs.payload[k] = 46

C9_Witness ==
    /\ nobs > 0 /\ received = <<126, 127>> /\ obs.payload = <<126, 46>>
    /\ obs.size = 2

(***************************************************************************)
(* C10.  As claimed: the sequence number of every datagram sent is         *)
(* rendered as exactly six decimal digits.                                 *)
(***************************************************************************)
\* The text after the second '/' of a payload: marker, '/', HHMMSS, '/'.
SeqField(m) == SubSeq(m, 2 * FIXLEN + 3, Len(m))

IsDigits(f) == \A k \in 1..Len(f) : f[k] \in 48..57

RECURSIVE DecimalValue(_)
DecimalValue(f) ==
    IF Len(f) = 0 THEN 0
    ELSE 10 * DecimalValue(SubSeq(f, 1, Len(f) - 1)) + (f[Len(f)] - 48)

JustSent == spc = "sleep"

C10_AlwaysSixDigits ==
    JustSent => Len(SeqField(message)) = 6 /\ IsDigits(SeqField(message))

(***************************************************************************)
(* C10, amended.  The sequence number of each datagram sent is one more    *)
(* than that of the datagram before it, and the number sent is the one     *)
(* rendered; it is rendered as exactly six zero-padded digits while it is  *)
(* below 1,000,000, and it does not wrap there: from 1,000,000 on it is    *)
(* rendered with seven or more digits and no padding (the counter is an    *)
(* int, so this covers the numbers up to 2^31 - 1).                        *)
(***************************************************************************)
C10_SequenceRendering ==
    /\ [](JustSent =>
            /\ IsDigits(SeqField(message))
            /\ DecimalValue(SeqField(message)) = lastSeq
            /\ lastSeq < 1000000 <=> Len(SeqField(message)) = 6
            /\ lastSeq >= 1000000 =>
                  Len(SeqField(message)) >= 7 /\ SeqField(message)[1] # 48)
    /\ [][nsent' # nsent =>
            /\ nsent' = nsent + 1
            /\ lastSeq # NoSeq => lastSeq' = lastSeq + 1
            /\ lastSeq = NoSeq => lastSeq' = SeqOf(0)]_vars

C10_Witness ==
    /\ JustSent /\ lastSeq = 1000000
    /\ SeqField(message) = <<49, 48, 48, 48, 48, 48, 48>>

(***************************************************************************)
(* C11.  send_thread has set the TTL / hop limit to 64 and the multicast   *)
(* loop option to p.loop, both with success and on its own socket, before  *)
(* it renders and sends its first datagram: no send, successful or failed, *)
(* happens without both.                                                   *)
(***************************************************************************)
SendAttempted ==
    \/ spc \in {"sendto", "sleep"}
    \/ nsent > 0
    \/ CallsIn(sops, {"sendto"}) # {}

OptionSet(name, value) ==
    \E k \in CallsIn(sops, {name}) :
        /\ sops[k].ok /\ sops[k].val = value /\ sops[k].fd = ssock
        /\ \A j \in CallsIn(sops, {"sendto"}) : k < j

C11_OptionsBeforeSend ==
    SendAttempted =>
        /\ OptionSet("MULTICAST_TTL", 64)
        /\ OptionSet("MULTICAST_LOOP", p.loop)

C11_Witness ==
    /\ argv.mode = "both" /\ nsent > 0 /\ ~exited
    /\ OptionSet("MULTICAST_TTL", 64) /\ OptionSet("MULTICAST_LOOP", 0)

(***************************************************************************)
(* C12.  send_thread binds to the session port, having enabled             *)
(* SO_REUSEADDR before the bind, exactly when p.bidir is set (mode both);  *)
(* otherwise it binds port 0 and never sets SO_REUSEADDR on its socket.    *)
(***************************************************************************)
SessionPort == atoi(argv.port)

C12_BindByBidir ==
    /\ p.bidir = 1 <=> (argv.mode = "both" /\ mpc \notin {"start", "dispatch"})
    /\ \A k \in CallsIn(sops, {"bind"}) :
          IF p.bidir = 1
          THEN /\ sops[k].port # 0 /\ ntohs(sops[k].port) = SessionPort
               /\ \E j \in 1..(k - 1) :
                     sops[j].op = "SO_REUSEADDR" /\ sops[j].ok
                     /\ sops[j].val = 1 /\ sops[j].fd = sops[k].fd
          ELSE /\ sops[k].port = 0
               /\ CallsIn(sops, {"SO_REUSEADDR"}) = {}
    /\ p.bidir = 0 => CallsIn(sops, {"SO_REUSEADDR"}) = {}

C12_Witness ==
    /\ p.bidir = 1 /\ spc = "sendto" /\ ~exited
    /\ \E k \in CallsIn(sops, {"bind"}) :
          sops[k].ok /\ ntohs(sops[k].port) = SessionPort

(***************************************************************************)
(* C13.  As claimed: when no interface argument is given, send_thread      *)
(* binds the wildcard address, in both programs and whether or not a       *)
(* source address was given.                                               *)
(***************************************************************************)
C13_WildcardWithoutInterface ==
    argc < 6 => \A k \in CallsIn(sops, {"bind"}) : sops[k].addr = AnyAddr

(***************************************************************************)
(* C13, amended.  multicast.c binds the sender to the interface address    *)
(* (the wildcard when no interface argument is given), whether or not a    *)
(* source address was given.  multicast6.c binds the sender to the source  *)
(* address p.sip (the wildcard when no source was given or its text does   *)
(* not parse), whether or not an interface name was given.                 *)
(***************************************************************************)
ExpectedSenderAddr ==
    IF family = 4
    THEN IF argc < 6 THEN "0.0.0.0"
         ELSE IF argv.ifc = BadText THEN "255.255.255.255" ELSE argv.ifc
    ELSE IF argc >= 5 /\ argv.sip \notin {"-", BadText} THEN argv.sip
         ELSE "::"

C13_SenderBindAddress ==
    \A k \in CallsIn(sops, {"bind"}) : sops[k].addr = ExpectedSenderAddr

C13_Witness ==
    /\ family = 6 /\ argc = 5 /\ argv.sip = SourceText(6) /\ spc = "sendto"
    /\ \E k \in CallsIn(sops, {"bind"}) :
          sops[k].ok /\ sops[k].addr = SourceText(6)

(***************************************************************************)
(* C14.  As claimed: when the group argument does not parse as an address  *)
(* of the family, the program stops before either thread creates a socket. *)
(***************************************************************************)
C14_NoSocketOnBadGroup ==
    (argc >= 4 /\ ~ValidAddr(family, argv.mip)) =>
        /\ rsock = NoFd /\ ssock = NoFd
        /\ fds = {0, 1, 2}
        /\ CallsIn(rops, {"socket"}) = {} /\ CallsIn(sops, {"socket"}) = {}

(***************************************************************************)
(* C15.  Mode both with no source address, the threads scheduled fairly:   *)
(* unless a setup call fails (and the process exits), the receiver comes   *)
(* to listen and the sender comes to have sent its first datagram; the     *)
(* receiver makes exactly one ASM join and prints exactly one join line    *)
(* for it, and no SSM join; and while it is setting up, each thread can    *)
(* take its next step whatever the other thread has or has not done.       *)
(***************************************************************************)
Listening == rpc = "recvfrom"
FirstSent == nsent >= 1
BothActive == Listening /\ FirstSent

OneAsmJoin ==
    /\ SsmJoins = {} /\ Cardinality(AsmJoins) <= 1 /\ Len(rlog) <= 1
    /\ Listening =>
          /\ \E k \in AsmJoins :
                rops[k].ok /\ rops[k].group = argv.mip /\ rops[k].fd = rsock
          /\ Len(rlog) = 1 /\ rlog[1].kind = "ASM" /\ rlog[1].group = argv.mip

RecvSettingUp ==
    rpc \in {"socket", "reuseaddr", "bind", "join_asm", "print_via"}
SendSettingUp ==
    spc \in {"socket", "reuseaddr", "bind", "multicast_if", "print_via", "ttl",
             "loop"}

StartupsIndependent ==
    /\ (~exited /\ RecvSettingUp) => ENABLED recv_thread
    /\ (~exited /\ SendSettingUp) => ENABLED send_thread
    /\ (~exited /\ spc = "sendto" /\ nsent = 0) => ENABLED SSendOk
    /\ (~exited /\ mpc = "create_st") => ENABLED MainCreateSend

C15_BidirectionalStarts ==
    /\ [](OneAsmJoin /\ StartupsIndependent)
    /\ <>(exited \/ BothActive)

C15_Witness ==
    /\ argv.mode = "both" /\ ~exited /\ BothActive
    /\ Cardinality(AsmJoins) = 1 /\ Len(rlog) = 1

(***************************************************************************)
(* C17.  The process has no successful way out.  Once main has launched    *)
(* the threads it sits in pause() and takes no further step, so it never   *)
(* reaches its return 0; and whenever the process has exited, by errusage  *)
(* or by a thread's failure, its status is EXIT_FAILURE and not 0.         *)
(***************************************************************************)
MainBlocked == mpc = "pause"

C17_NoSuccessExit ==
    /\ [](exited => status = EXIT_FAILURE /\ status # 0)
    /\ [](~exited => status = 0 /\ mpc # "exit")
    /\ []((RecvLaunched \/ SendLaunched) /\ mpc # "create_st" => MainBlocked)
    /\ [](MainBlocked => ~ENABLED main)
    /\ [][MainBlocked => mpc' = mpc]_vars
    /\ [][exited' /\ ~exited => status' = EXIT_FAILURE]_vars

C17_Witness ==
    /\ MainBlocked /\ argv.mode = "recv" /\ rsock # NoFd
    /\ exited /\ rpc = "failed" /\ status = EXIT_FAILURE

(***************************************************************************)
(* C18.  Each thread creates exactly one socket; every socket call a       *)
(* thread makes (options, bind, joins, recvfrom, sendto) is on the         *)
(* descriptor that thread created; in mode both the two descriptors are    *)
(* different; and no descriptor is closed or replaced while the process    *)
(* runs.                                                                   *)
(***************************************************************************)
Created(log) == {k \in CallsIn(log, {"socket"}) : log[k].ok}

OwnSocketOnly(log, sock, last) ==
    /\ Cardinality(Created(log)) <= 1
    /\ Cardinality(Created(log)) = 1 <=> sock # NoFd
    /\ \A k \in Created(log) : log[k].fd = sock /\ k = 1
    /\ \A k \in 1..Len(log) :
          log[k].op # "socket" => log[k].fd = sock /\ sock # NoFd
    /\ last \in {NoFd, sock}
    /\ sock # NoFd => sock \in fds /\ sock \notin {0, 1, 2}

C18_SocketOwnership ==
    /\ [](OwnSocketOnly(rops, rsock, rfd) /\ OwnSocketOnly(sops, ssock, sfd))
    /\ [](nrecv > 0 => rfd = rsock /\ rsock # NoFd)
    /\ [](nsent > 0 => sfd = ssock /\ ssock # NoFd)
    /\ []((rsock # NoFd /\ ssock # NoFd) => rsock # ssock)
    /\ [][fds \subseteq fds']_vars
    /\ [][(rsock # NoFd => rsock' = rsock) /\ (ssock # NoFd => ssock' = ssock)]_vars

C18_Witness ==
    /\ argv.mode = "both" /\ ~exited
    /\ nrecv > 0 /\ nsent > 0
    /\ rfd = rsock /\ sfd = ssock /\ rsock # ssock /\ {rsock, ssock} \subseteq fds

(***************************************************************************)
(* C19.  In multicast6.c's SSM path the receiver first binds its socket to *)
(* the device p.ifname, and issues the source-specific join, for the       *)
(* group, the source and the interface index, only after that bind         *)
(* succeeded; a failed device bind is the end and no join follows.         *)
(* multicast.c's SSM path issues no device bind.                           *)
(***************************************************************************)
DeviceBinds == CallsIn(rops, {"SO_BINDTODEVICE"})

C19_DeviceBindBeforeSsmJoin ==
    /\ family = 6 =>
          /\ \A k \in SsmJoins :
                /\ \E j \in DeviceBinds :
                      /\ j < k /\ rops[j].ok /\ rops[j].fd = rops[k].fd
                      /\ rops[j].ifname = p.ifname
                /\ rops[k].group = p.mip /\ rops[k].source = p.sip
                /\ rops[k].ifc = p.ifidx
          /\ (\E j \in DeviceBinds : ~rops[j].ok) => SsmJoins = {}
          /\ DeviceBinds # {} => AsmJoins = {} /\ p.ssm = 1
          /\ Cardinality(DeviceBinds) <= 1
    /\ family = 4 => DeviceBinds = {}
    /\ rpc = "join_ssm" /\ family = 6 => \E j \in DeviceBinds : rops[j].ok

C19_Witness ==
    /\ family = 6 /\ rpc = "recvfrom" /\ ~exited
    /\ \E k \in SsmJoins : rops[k].ok /\ rops[k].source = SourceText(6)
    /\ \E j \in DeviceBinds : rops[j].ok

(***************************************************************************)
(* C20.  Every payload send_thread renders while the number it carries is  *)
(* below 1,000,000 is a six-character marker, "/", six digits of time,     *)
(* "/", six digits of sequence number: 20 bytes.  The markers of two       *)
(* consecutive datagrams differ.  Every byte is printable, so the          *)
(* receiver's sanitization returns the payload unchanged.                  *)
(***************************************************************************)
Slash == 47

\* The number in the payload now in `message'.
RenderedSeq == IF spc = "sendto" THEN SeqOf(i - 1) ELSE SeqOf(i)

MarkerOf(m) == SubSeq(m, 1, FIXLEN)
TimeOf(m) == SubSeq(m, FIXLEN + 2, 2 * FIXLEN + 1)

WellFormed(m) ==
    /\ Len(m) = 20
    /\ Len(MarkerOf(m)) = 6 /\ \A k \in 1..6 : MarkerOf(m)[k] # Slash
    /\ m[FIXLEN + 1] = Slash
    /\ Len(TimeOf(m)) = 6 /\ IsDigits(TimeOf(m))
    /\ m[2 * FIXLEN + 2] = Slash
    /\ Len(SeqField(m)) = 6 /\ IsDigits(SeqField(m))
    /\ \A k \in 1..Len(m) : PrintableAscii(m[k])
    /\ Sanitize(m) = m

C20_PayloadForm ==
    /\ []((message # <<>> /\ RenderedSeq < 1000000) =>
             /\ WellFormed(message)
             /\ DecimalValue(SeqField(message)) = RenderedSeq)
    /\ [][(spc = "sendto" /\ spc' # spc) => message' # message]_vars
    /\ [][(message' # message /\ message # <<>>) =>
             MarkerOf(message') # MarkerOf(message)]_vars

C20_Witness ==
    /\ family = 6 /\ JustSent /\ i = 9 /\ lastSeq = 10
    /\ MarkerOf(message) = <<46, 46, 46, 49, 46, 46>>
    /\ Len(message) = 20 /\ Sanitize(message) = message

(***************************************************************************)
(* C21.  The n-th datagram send_thread sends carries the number n - 1 in   *)
(* multicast.c and n in multicast6.c, so the first carries 0 and 1; and    *)
(* the counter i moves, by one, only in the pass after a sendto that       *)
(* succeeded: a failed sendto leaves it where it was.                      *)
(***************************************************************************)
NthNumber(n) == IF family = 4 THEN n - 1 ELSE n

C21_SequenceNumbers ==
    /\ [](JustSent =>
             /\ nsent >= 1 /\ lastSeq = NthNumber(nsent)
             /\ IsDigits(SeqField(message))
             /\ DecimalValue(SeqField(message)) = NthNumber(nsent)
             /\ i = nsent - 1)
    /\ [](nsent = 0 => i = 0 /\ lastSeq = NoSeq)
    /\ [](spc \in {"sendto", "failed"} /\ nsent > 0 => i = nsent)
    /\ [][i' # i => i' = i + 1 /\ JustSent /\ nsent = i + 1]_vars
    /\ [][(spc = "sendto" /\ spc' = "failed") => i' = i /\ nsent' = nsent]_vars

C21_Witness ==
    /\ family = 6 /\ JustSent /\ nsent = 1 /\ lastSeq = 1
    /\ SeqField(message) = <<48, 48, 48, 48, 48, 49>>

(***************************************************************************)
(* C22.  As claimed: in mode both, from a state in which one thread's call *)
(* has failed fatally, the other thread makes no further recvfrom or       *)
(* sendto.                                                                 *)
(***************************************************************************)
ReadStep == nrecv' # nrecv
SendStep == nsent' # nsent \/ (spc = "sendto" /\ spc' = "failed")

C22_NoStepAfterFailure ==
    [][argv.mode = "both" =>
          /\ spc = "failed" => ~ReadStep
          /\ rpc = "failed" => ~SendStep]_vars

(***************************************************************************)
(* C22, amended.  In mode both a fatal failure in one thread ends the      *)
(* whole process: the failed thread makes no further call, its exit is     *)
(* always possible and, the threads being scheduled, comes; and once exit  *)
(* has been called neither thread reads, sends or does anything else.      *)
(* Between the failed call and the exit the other thread is still running  *)
(* and may complete further reads or sends.                                *)
(***************************************************************************)
SomeLoopFailed == rpc = "failed" \/ spc = "failed"

C22_ExitEndsBothLoops ==
    /\ [][exited => UNCHANGED <<recvv, sendv, mainv>>]_vars
    /\ [][exited => exited']_vars
    /\ [][rpc = "failed" => UNCHANGED recvv]_vars
    /\ [][spc = "failed" => UNCHANGED sendv]_vars
    /\ []((rpc = "failed" /\ ~exited) => ENABLED RExit)
    /\ []((spc = "failed" /\ ~exited) => ENABLED SExit)
    /\ [](exited => SomeLoopFailed /\ status = EXIT_FAILURE)
    /\ SomeLoopFailed ~> exited

C22_Witness ==
    /\ argv.mode = "both" /\ exited /\ status = EXIT_FAILURE
    /\ spc = "failed" /\ sops[Len(sops)].op = "bind"
    /\ rpc = "recvfrom" /\ nrecv > 0

(***************************************************************************)
(* C23.  As claimed: in multicast.c in mode both, the line of stdout that  *)
(* the join confirmation begins on holds nothing written by send_thread:   *)
(* neither "Sending via interface" nor a "Sent to" line lands between the  *)
(* fragments of the confirmation.                                          *)
(***************************************************************************)
C23_JoinLineUninterrupted ==
    (family = 4 /\ argv.mode = "both") =>
        \A k \in 1..Len(joinline) : joinline[k].by = "recv"

(***************************************************************************)
(* C24.  multicast6.c's SSM receiver always issues the device bind: once   *)
(* its bind has succeeded, SO_BINDTODEVICE is the next call.  With no      *)
(* interface argument the name it passes is "default" and the source-      *)
(* specific join, if reached, names interface index 0; the device bind is  *)
(* not skipped for the default interface.                                  *)
(***************************************************************************)
PastBind ==
    /\ \E k \in CallsIn(rops, {"bind"}) : rops[k].ok
    /\ rpc # "bindtodevice"

C24_DeviceBindAlways ==
    (family = 6 /\ SsmBlock) =>
        /\ PastBind => DeviceBinds # {}
        /\ SsmJoins # {} => DeviceBinds # {}
        /\ argc < 6 =>
              /\ \A j \in DeviceBinds : rops[j].ifname = "default"
              /\ \A k \in SsmJoins : rops[k].ifc = 0
        /\ argc >= 6 => \A j \in DeviceBinds : rops[j].ifname = argv.ifc

C24_Witness ==
    /\ family = 6 /\ argc = 5 /\ rpc = "recvfrom" /\ ~exited
    /\ \E j \in DeviceBinds : rops[j].ok /\ rops[j].ifname = IFNAMEDEFAULT
    /\ \E k \in SsmJoins : rops[k].ok /\ rops[k].ifc = IFIDXDEFAULT

=============================================================================
